---- MODULE Spec2Model ----
(***************************************************************************)
(* A model of src/main.py: the five field extractors and parse_details,    *)
(* and the two upload handlers with their temp file.                       *)
(*                                                                         *)
(* A Python str is a sequence of one-character strings, so that the        *)
(* regular expressions of the source are matched character by character.   *)
(* Optional[T] is a sequence of length 0 (None) or 1 (the value).          *)
(***************************************************************************)
EXTENDS Integers, Sequences, FiniteSets, TLC

VARIABLES
    text,              \* the argument of the function under check
    pc,                \* "call" before the function has run, "done" after
    result,            \* what the call did: [exc, val]
    KNOWN_LOCATIONS,   \* module globals (lines 35-50)
    DEVICE_KEYWORDS,
    NUMBER_WORDS,
    ctext,             \* concurrent parse_details calls: their argument,
    cpending,          \*   the extractors still to run,
    cfields,           \*   the fields computed so far,
    cret,              \*   and the record returned
    upload,            \* requests: [endpoint, filename, bytes]
    hpc,               \* handler position: "new", "awaiting", "done"
    dir,               \* temp directory: filename -> inode (0: no entry)
    inode,             \* inode -> file content
    fd,                \* request -> inode its open file object writes to
    heard,             \* request -> what speech_to_text read at tmp_path
    response           \* request -> the handler's return value

pureVars == <<text, pc, result>>
vocabVars == <<KNOWN_LOCATIONS, DEVICE_KEYWORDS, NUMBER_WORDS>>
concVars == <<ctext, cpending, cfields, cret>>
httpVars == <<upload, hpc, dir, inode, fd, heard, response>>
vars == <<text, pc, result, KNOWN_LOCATIONS, DEVICE_KEYWORDS, NUMBER_WORDS,
          ctext, cpending, cfields, cret,
          upload, hpc, dir, inode, fd, heard, response>>

-----------------------------------------------------------------------------
(* Python values *)

None == <<>>
Some(v) == <<v>>

\* What a call did: returned val (exc = "") or raised exc.
Ret(v) == [exc |-> "", val |-> v]
Raise(e) == [exc |-> e, val |-> None]

LowerSeq == <<"a", "b", "c", "d", "e", "f", "g", "h", "i", "j", "k", "l", "m", "n", "o", "p", "q", "r", "s", "t", "u", "v", "w", "x", "y", "z">>
UpperSeq == <<"A", "B", "C", "D", "E", "F", "G", "H", "I", "J", "K", "L", "M", "N", "O", "P", "Q", "R", "S", "T", "U", "V", "W", "X", "Y", "Z">>
DigitSeq == <<"0", "1", "2", "3", "4", "5", "6", "7", "8", "9">>

\* One element of a text that stands for a run of 400 digits '9': a number
\* float() turns into inf.
Nines400 == "9{400}"

Lowers == {LowerSeq[i] : i \in 1..26}
Uppers == {UpperSeq[i] : i \in 1..26}
Digits == {DigitSeq[i] : i \in 1..10} \cup {Nines400}
Spaces == {" ", "\t", "\n", "\r", "\f"}
WordChars == Lowers \cup Uppers \cup Digits \cup {"_"}

\* str.lower(), one character.
ToLower(c) == IF c \in Uppers THEN LowerSeq[CHOOSE i \in 1..26 : UpperSeq[i] = c] ELSE c
ToUpper(c) == IF c \in Lowers THEN UpperSeq[CHOOSE i \in 1..26 : LowerSeq[i] = c] ELSE c

\* str.lower()
PyLower(s) == [i \in 1..Len(s) |-> ToLower(s[i])]

\* s[a:b] with 1-based a and exclusive b, as the regex engine's spans are.
Slice(s, a, b) == IF b <= a THEN <<>> ELSE SubSeq(s, a, b - 1)

RECURSIVE LStripFrom(_, _)
LStripFrom(s, i) == IF i <= Len(s) /\ s[i] \in Spaces THEN LStripFrom(s, i + 1) ELSE i
RECURSIVE RStripFrom(_, _)
RStripFrom(s, j) == IF j >= 1 /\ s[j] \in Spaces THEN RStripFrom(s, j - 1) ELSE j

\* str.strip()
PyStrip(s) == Slice(s, LStripFrom(s, 1), RStripFrom(s, Len(s)) + 1)

RECURSIVE SplitFrom(_, _, _)
SplitFrom(s, i, cur) ==
    IF i > Len(s) THEN (IF cur = <<>> THEN <<>> ELSE <<cur>>)
    ELSE IF s[i] \in Spaces
         THEN (IF cur = <<>> THEN <<>> ELSE <<cur>>) \o SplitFrom(s, i + 1, <<>>)
         ELSE SplitFrom(s, i + 1, Append(cur, s[i]))

\* str.split() with no argument: the runs of non-whitespace.
PySplit(s) == SplitFrom(s, 1, <<>>)

RECURSIVE PyJoin(_, _)
\* sep.join(ws)
PyJoin(sep, ws) ==
    IF ws = <<>> THEN <<>>
    ELSE IF Len(ws) = 1 THEN ws[1]
    ELSE ws[1] \o sep \o PyJoin(sep, Tail(ws))

\* ws[a:b] of a list, 0-based as in Python, b clipped to the length.
PyListSlice(ws, a, b) ==
    LET hi == IF b > Len(ws) THEN Len(ws) ELSE b
    IN IF hi <= a THEN <<>> ELSE SubSeq(ws, a + 1, hi)

\* needle in hay, for two str.
PyIn(needle, hay) ==
    \E i \in 1..(Len(hay) - Len(needle) + 1) : SubSeq(hay, i, i + Len(needle) - 1) = needle

-----------------------------------------------------------------------------
(* float(), round(), int() *)

DigitVal(c) == (CHOOSE i \in 1..10 : DigitSeq[i] = c) - 1

RECURSIVE DecVal(_, _)
\* The value of a run of decimal digits, most significant first.
DecVal(ds, acc) == IF ds = <<>> THEN acc ELSE DecVal(Tail(ds), acc * 10 + DigitVal(Head(ds)))

RECURSIVE Pow10(_)
Pow10(n) == IF n = 0 THEN 1 ELSE 10 * Pow10(n - 1)

IsDigitRun(s) == s # <<>> /\ \A i \in 1..Len(s) : s[i] \in Digits
HasHuge(s) == \E i \in 1..Len(s) : s[i] = Nines400

Fin(n, d) == [kind |-> "fin", num |-> n, den |-> d]
Inf == [kind |-> "inf", num |-> 0, den |-> 1]
FloatError == [kind |-> "ValueError", num |-> 0, den |-> 1]

\* float(s) of a str: digits, or digits '.' digits; the value num/den. An
\* integer part of 400 digits is beyond the largest double: inf, no error.
PyFloat(s) ==
    LET dots == {i \in 1..Len(s) : s[i] = "."}
        dot == IF dots = {} THEN Len(s) + 1 ELSE CHOOSE i \in dots : \A j \in dots : i <= j
        ip == Slice(s, 1, dot)
        fp == Slice(s, dot + 1, Len(s) + 1)
    IN IF ~IsDigitRun(ip) \/ Cardinality(dots) > 1 \/ (dots # {} /\ ~IsDigitRun(fp))
       THEN FloatError
       ELSE IF HasHuge(ip) THEN Inf
       ELSE IF HasHuge(fp) THEN Fin(DecVal(ip, 0) + 1, 1)
       ELSE Fin(DecVal(ip, 0) * Pow10(Len(fp)) + DecVal(fp, 0), Pow10(Len(fp)))

\* f * 1000.0
FloatTimes1000(f) == IF f.kind = "fin" THEN Fin(f.num * 1000, f.den) ELSE f

\* round(f) of a finite non-negative float: to nearest, ties to even.
RoundHalfEven(f) ==
    LET q == f.num \div f.den
        r == f.num % f.den
    IN IF 2 * r < f.den THEN q
       ELSE IF 2 * r > f.den THEN q + 1
       ELSE IF q % 2 = 0 THEN q ELSE q + 1

\* A value handed to _to_int_safe: None, a str or a float.
PyNoneVal == [ty |-> "none", s |-> <<>>, f |-> Inf]
PyStrVal(s) == [ty |-> "str", s |-> s, f |-> Inf]
PyFloatVal(f) == [ty |-> "float", s |-> <<>>, f |-> f]

\* Lines 69-71, the body of the try: float() raises ValueError on a str that
\* is no number, round() raises OverflowError on inf.
ToIntBody(value) ==
    IF value.ty = "none" THEN Ret(None)
    ELSE LET f == IF value.ty = "float" THEN value.f ELSE PyFloat(value.s)
         IN IF f.kind = "ValueError" THEN Raise("ValueError")
            ELSE IF f.kind = "inf" THEN Raise("OverflowError")
            ELSE Ret(Some(RoundHalfEven(f)))

\* Without the try/except.
ToIntUnguarded(value) == ToIntBody(value)

\* _to_int_safe: except Exception: return None.
_to_int_safe(value) ==
    LET o == ToIntBody(value)
    IN IF o.exc # "" THEN Ret(None) ELSE o

-----------------------------------------------------------------------------
(* The re module: a pattern is a tree of nodes, matched by backtracking in  *)
(* Python's order.  Matching a node from a state gives the states after it, *)
(* first choice first; a state is a position and the groups' spans.         *)

Node(t, cs, rs, lo, hi) == [t |-> t, cs |-> cs, rs |-> rs, lo |-> lo, hi |-> hi]

Chr(cs) == Node("chr", cs, <<>>, 0, 0)          \* one character of a class
AnyChar == Node("any", {}, <<>>, 0, 0)          \* .
WordB == Node("wordb", {}, <<>>, 0, 0)          \* \b
EndA == Node("end", {}, <<>>, 0, 0)             \* $
Cat(rs) == Node("cat", {}, rs, 0, 0)            \* r1 r2 ...
Alt(rs) == Node("alt", {}, rs, 0, 0)            \* r1 | r2 | ...
Rep(r, lo, hi) == Node("rep", {}, <<r>>, lo, hi) \* r{lo,hi}, greedy; hi = -1: no limit
Star(r) == Rep(r, 0, -1)
Plus(r) == Rep(r, 1, -1)
Opt(r) == Rep(r, 0, 1)
Grp(g, r) == Node("grp", {}, <<r>>, g, 0)       \* capturing group g
Lit(w) == Cat([i \in 1..Len(w) |-> Chr({w[i]})])
\* A literal under re.I.
LitI(w) == Cat([i \in 1..Len(w) |-> Chr({ToLower(w[i]), ToUpper(w[i])})])

NoSpan == <<0, 0>>
NoCaps == <<NoSpan, NoSpan>>
MState(p, caps) == [pos |-> p, caps |-> caps]

IsWordAt(t, i) == i >= 1 /\ i <= Len(t) /\ t[i] \in WordChars
\* \b at position p: between t[p-1] and t[p] exactly one is a word character.
AtWordBoundary(t, p) == IsWordAt(t, p - 1) # IsWordAt(t, p)
\* $: at the end, or before a final newline.
AtEnd(t, p) == p = Len(t) + 1 \/ (p = Len(t) /\ t[p] = "\n")

RECURSIVE MatchNode(_, _, _)
RECURSIVE MatchEach(_, _, _)
RECURSIVE MatchCat(_, _, _, _)
RECURSIVE MatchAlt(_, _, _, _)
RECURSIVE MatchRep(_, _, _, _)
RECURSIVE MatchRepEach(_, _, _, _)
RECURSIVE CloseGroup(_, _, _)
RECURSIVE Advanced(_, _)

\* The states of sts that moved past position p.
Advanced(sts, p) ==
    IF sts = <<>> THEN <<>>
    ELSE (IF Head(sts).pos > p THEN <<Head(sts)>> ELSE <<>>) \o Advanced(Tail(sts), p)

CloseGroup(g, from, sts) ==
    IF sts = <<>> THEN <<>>
    ELSE <<MState(Head(sts).pos, [Head(sts).caps EXCEPT ![g] = <<from, Head(sts).pos>>])>>
         \o CloseGroup(g, from, Tail(sts))

MatchEach(r, t, sts) ==
    IF sts = <<>> THEN <<>> ELSE MatchNode(r, t, Head(sts)) \o MatchEach(r, t, Tail(sts))

MatchCat(rs, i, t, sts) ==
    IF i > Len(rs) \/ sts = <<>> THEN sts ELSE MatchCat(rs, i + 1, t, MatchEach(rs[i], t, sts))

MatchAlt(rs, i, t, st) ==
    IF i > Len(rs) THEN <<>> ELSE MatchNode(rs[i], t, st) \o MatchAlt(rs, i + 1, t, st)

MatchRepEach(r, t, sts, n) ==
    IF sts = <<>> THEN <<>> ELSE MatchRep(r, t, Head(sts), n) \o MatchRepEach(r, t, Tail(sts), n)

\* Greedy: one more round first, then (with lo rounds done) stopping here.
MatchRep(r, t, st, n) ==
    LET more == IF r.hi # -1 /\ n >= r.hi THEN <<>>
                ELSE Advanced(MatchNode(r.rs[1], t, st), st.pos)
    IN MatchRepEach(r, t, more, n + 1) \o (IF n >= r.lo THEN <<st>> ELSE <<>>)

MatchNode(r, t, st) ==
    CASE r.t = "chr" ->
            IF st.pos <= Len(t) /\ t[st.pos] \in r.cs
            THEN <<MState(st.pos + 1, st.caps)>> ELSE <<>>
      [] r.t = "any" ->
            IF st.pos <= Len(t) /\ t[st.pos] # "\n"
            THEN <<MState(st.pos + 1, st.caps)>> ELSE <<>>
      [] r.t = "wordb" -> IF AtWordBoundary(t, st.pos) THEN <<st>> ELSE <<>>
      [] r.t = "end" -> IF AtEnd(t, st.pos) THEN <<st>> ELSE <<>>
      [] r.t = "cat" -> MatchCat(r.rs, 1, t, <<st>>)
      [] r.t = "alt" -> MatchAlt(r.rs, 1, t, st)
      [] r.t = "rep" -> MatchRep(r, t, st, 0)
      [] r.t = "grp" -> CloseGroup(r.lo, st.pos, MatchNode(r.rs[1], t, st))

NoMatch == [found |-> FALSE, start |-> 0, end |-> 0, caps |-> NoCaps]

RECURSIVE SearchFrom(_, _, _)
\* pattern.search(t, p): the leftmost match, and at its start the first in
\* backtracking order.
SearchFrom(r, t, p) ==
    IF p > Len(t) + 1 THEN NoMatch
    ELSE LET sts == MatchNode(r, t, MState(p, NoCaps))
         IN IF sts # <<>>
            THEN [found |-> TRUE, start |-> p, end |-> sts[1].pos, caps |-> sts[1].caps]
            ELSE SearchFrom(r, t, p + 1)

\* re.search(r, t)
ReSearch(r, t) == SearchFrom(r, t, 1)

\* m.group(g)
Group(t, m, g) == Slice(t, m.caps[g][1], m.caps[g][2])

RECURSIVE FindAllFrom(_, _, _)
\* re.findall(r, t) of a pattern without groups: the successive matches. An
\* empty match moves one character on.
FindAllFrom(r, t, p) ==
    LET m == SearchFrom(r, t, p)
    IN IF ~m.found THEN <<>>
       ELSE <<Slice(t, m.start, m.end)>>
            \o FindAllFrom(r, t, IF m.end > m.start THEN m.end ELSE m.end + 1)

ReFindAll(r, t) == FindAllFrom(r, t, 1)

RECURSIVE SubEmptyFrom(_, _, _)
\* re.sub(r, "", t): t without the successive matches of r.
SubEmptyFrom(r, t, p) ==
    LET m == SearchFrom(r, t, p)
    IN IF ~m.found THEN Slice(t, p, Len(t) + 1)
       ELSE IF m.end > m.start
            THEN Slice(t, p, m.start) \o SubEmptyFrom(r, t, m.end)
            ELSE Slice(t, p, IF m.start + 1 > Len(t) + 1 THEN Len(t) + 1 ELSE m.start + 1)
                 \o (IF m.start > Len(t) THEN <<>> ELSE SubEmptyFrom(r, t, m.start + 1))

ReSubEmpty(r, t) == SubEmptyFrom(r, t, 1)

-----------------------------------------------------------------------------
(* _extract_power_watts, lines 75-91 *)

DigitC == Chr(Digits)
SpaceC == Chr(Spaces)

\* (?P<num>\d+(?:\.\d+)?)\s*(?P<unit>k(?:ilo)?w(?:att)?s?|w(?:att)?s?)\b, re.I
power_pat ==
    Cat(<<Grp(1, Cat(<<Plus(DigitC), Opt(Cat(<<Chr({"."}), Plus(DigitC)>>))>>)),
          Star(SpaceC),
          Grp(2, Alt(<<Cat(<<LitI(<<"k">>), Opt(LitI(<<"i", "l", "o">>)), LitI(<<"w">>),
                             Opt(LitI(<<"a", "t", "t">>)), Opt(LitI(<<"s">>))>>),
                       Cat(<<LitI(<<"w">>), Opt(LitI(<<"a", "t", "t">>)), Opt(LitI(<<"s">>))>>)>>)),
          WordB>>)

\* (?:power|wattage)\s*[:=]?\s*(\d+), re.I
power_fallback_pat ==
    Cat(<<Alt(<<LitI(<<"p", "o", "w", "e", "r">>), LitI(<<"w", "a", "t", "t", "a", "g", "e">>)>>),
          Star(SpaceC), Opt(Chr({":", "="})), Star(SpaceC),
          Grp(1, Plus(DigitC))>>)

\* unit.startswith(p)
StartsWith(s, p) == Len(s) >= Len(p) /\ SubSeq(s, 1, Len(p)) = p

\* Line 84: unit.startswith("kw") or unit.startswith("kilo")
IsKiloUnit(unit) == StartsWith(unit, <<"k", "w">>) \/ StartsWith(unit, <<"k", "i", "l", "o">>)

\* The unit is ignored: every quantity is taken as watts.
PowerFromMatchNoKilo(t, m) ==
    LET f == PyFloat(Group(t, m, 1))
    IN IF f.kind = "ValueError" THEN Raise("ValueError")
       ELSE _to_int_safe(PyFloatVal(f))

\* Lines 82-87: the body of the loop, which returns on its first round.
PowerFromMatch(t, m) ==
    LET f == PyFloat(Group(t, m, 1))
        unit == PyLower(Group(t, m, 2))
    IN IF f.kind = "ValueError" THEN Raise("ValueError")
       ELSE IF IsKiloUnit(unit) THEN _to_int_safe(PyFloatVal(FloatTimes1000(f)))
       ELSE _to_int_safe(PyFloatVal(f))

_extract_power_watts(txt) ==
    LET t == PyLower(txt)
        m == ReSearch(power_pat, t)
        m2 == ReSearch(power_fallback_pat, t)
    IN IF m.found THEN PowerFromMatch(t, m)
       ELSE IF m2.found THEN _to_int_safe(PyStrVal(Group(t, m2, 1)))
       ELSE Ret(None)

-----------------------------------------------------------------------------
(* The module globals, lines 35-50 *)

KnownLocationsList ==
    <<<<"k", "i", "t", "c", "h", "e", "n">>, <<"l", "i", "v", "i", "n", "g", " ", "r", "o", "o", "m">>, <<"b", "e", "d", "r", "o", "o", "m">>, <<"b", "a", "t", "h", "r", "o", "o", "m">>, <<"g", "a", "r", "a", "g", "e">>,
      <<"o", "f", "f", "i", "c", "e">>, <<"d", "i", "n", "i", "n", "g", " ", "r", "o", "o", "m">>, <<"k", "i", "d", "s", " ", "r", "o", "o", "m">>, <<"s", "t", "u", "d", "y">>, <<"s", "t", "o", "r", "e", "r", "o", "o", "m">>,
      <<"b", "a", "l", "c", "o", "n", "y">>, <<"h", "a", "l", "l">>, <<"l", "a", "u", "n", "d", "r", "y">>, <<"p", "a", "n", "t", "r", "y">>>>

DeviceKeywordsList ==
    <<<<"f", "r", "i", "d", "g", "e">>, <<"r", "e", "f", "r", "i", "g", "e", "r", "a", "t", "o", "r">>, <<"a", "c">>, <<"a", "i", "r", " ", "c", "o", "n", "d", "i", "t", "i", "o", "n", "e", "r">>,
      <<"w", "a", "s", "h", "i", "n", "g", " ", "m", "a", "c", "h", "i", "n", "e">>, <<"m", "i", "c", "r", "o", "w", "a", "v", "e">>, <<"o", "v", "e", "n">>, <<"h", "e", "a", "t", "e", "r">>,
      <<"d", "i", "s", "h", "w", "a", "s", "h", "e", "r">>, <<"f", "a", "n">>, <<"t", "v">>, <<"t", "e", "l", "e", "v", "i", "s", "i", "o", "n">>, <<"c", "o", "o", "l", "e", "r">>,
      <<"f", "r", "e", "e", "z", "e", "r">>, <<"p", "u", "m", "p">>, <<"d", "r", "y", "e", "r">>>>

\* A dict keeps its insertion order: the pairs (key, value) in that order.
NumberWordsDict ==
    <<<<<<"z", "e", "r", "o">>, 0>>, <<<<"o", "n", "e">>, 1>>, <<<<"t", "w", "o">>, 2>>, <<<<"t", "h", "r", "e", "e">>, 3>>,
      <<<<"f", "o", "u", "r">>, 4>>, <<<<"f", "i", "v", "e">>, 5>>, <<<<"s", "i", "x">>, 6>>, <<<<"s", "e", "v", "e", "n">>, 7>>,
      <<<<"e", "i", "g", "h", "t">>, 8>>, <<<<"n", "i", "n", "e">>, 9>>, <<<<"t", "e", "n">>, 10>>>>

\* d.keys()
DictKeys(d) == [i \in 1..Len(d) |-> d[i][1]]

\* d.get(k)
DictGet(d, k) ==
    LET hits == {i \in 1..Len(d) : d[i][1] = k}
    IN IF hits = {} THEN None ELSE Some(d[CHOOSE i \in hits : TRUE][2])

-----------------------------------------------------------------------------
(* _extract_rating, lines 93-104 *)

\* \s*[-\s]*star[s]?\b
StarTail ==
    <<Star(SpaceC), Star(Chr({"-"} \cup Spaces)), Lit(<<"s", "t", "a", "r">>), Opt(Chr({"s"})), WordB>>

\* \b(\d+)\s*[-\s]*star[s]?\b
rating_digit_pat == Cat(<<WordB, Grp(1, Plus(DigitC))>> \o StarTail)

\* \b({})\s*[-\s]*star[s]?\b with the keys of NUMBER_WORDS joined by |
rating_word_pat(keys) ==
    Cat(<<WordB, Grp(1, Alt([i \in 1..Len(keys) |-> Lit(keys[i])]))>> \o StarTail)

\* \brating\s*(?:is|:)?\s*(\d+)\b
rating_is_pat ==
    Cat(<<WordB, Lit(<<"r", "a", "t", "i", "n", "g">>), Star(SpaceC), Opt(Alt(<<Lit(<<"i", "s">>), Lit(<<":">>)>>)),
          Star(SpaceC), Grp(1, Plus(DigitC)), WordB>>)

\* The word form is tried before the digit form.
RatingWordFirst(nums, txt) ==
    LET t == PyLower(txt)
        m == ReSearch(rating_digit_pat, t)
        m2 == ReSearch(rating_word_pat(DictKeys(nums)), t)
        m3 == ReSearch(rating_is_pat, t)
    IN IF m2.found THEN Ret(DictGet(nums, Group(t, m2, 1)))
       ELSE IF m.found THEN _to_int_safe(PyStrVal(Group(t, m, 1)))
       ELSE IF m3.found THEN _to_int_safe(PyStrVal(Group(t, m3, 1)))
       ELSE Ret(None)

\* Lines 94-104, with the NUMBER_WORDS it reads as nums.
RatingOf(nums, txt) ==
    LET t == PyLower(txt)
        m == ReSearch(rating_digit_pat, t)
        m2 == ReSearch(rating_word_pat(DictKeys(nums)), t)
        m3 == ReSearch(rating_is_pat, t)
    IN IF m.found THEN _to_int_safe(PyStrVal(Group(t, m, 1)))
       ELSE IF m2.found THEN Ret(DictGet(nums, Group(t, m2, 1)))
       ELSE IF m3.found THEN _to_int_safe(PyStrVal(Group(t, m3, 1)))
       ELSE Ret(None)

_extract_rating(txt) == RatingOf(NUMBER_WORDS, txt)

-----------------------------------------------------------------------------
(* _extract_type, lines 106-114 *)

\* \btype\s*(?:is|:)?\s*([a-zA-Z]+)\b
type_pat ==
    Cat(<<WordB, Lit(<<"t", "y", "p", "e">>), Star(SpaceC), Opt(Alt(<<Lit(<<"i", "s">>), Lit(<<":">>)>>)),
          Star(SpaceC), Grp(1, Plus(Chr(Lowers \cup Uppers))), WordB>>)

\* Line 111
TypeKeywords == <<<<"e", "l", "e", "c", "t", "r", "i", "c">>, <<"g", "a", "s">>, <<"s", "o", "l", "a", "r">>, <<"b", "a", "t", "t", "e", "r", "y">>, <<"d", "i", "e", "s", "e", "l">>>>

\* \b{kw}\b
whole_word_pat(w) == Cat(<<WordB, Lit(w), WordB>>)

RECURSIVE TypeKeywordLoop(_, _)
\* Lines 111-114: the loop from keyword i on.
TypeKeywordLoop(t, i) ==
    IF i > Len(TypeKeywords) THEN None
    ELSE IF ReSearch(whole_word_pat(TypeKeywords[i]), t).found THEN Some(TypeKeywords[i])
    ELSE TypeKeywordLoop(t, i + 1)

\* The keyword that comes first in the text, not in the list.
TypeKeywordByText(t) ==
    LET hit(i) == ReSearch(whole_word_pat(TypeKeywords[i]), t)
        hits == {i \in 1..Len(TypeKeywords) : hit(i).found}
    IN IF hits = {} THEN None
       ELSE Some(TypeKeywords[CHOOSE i \in hits : \A j \in hits : hit(i).start <= hit(j).start])

TypeFallback(t) == TypeKeywordLoop(t, 1)

_extract_type(txt) ==
    LET t == PyLower(txt)
        m == ReSearch(type_pat, t)
    IN IF m.found THEN Ret(Some(PyStrip(Group(t, m, 1))))
       ELSE Ret(TypeFallback(t))

-----------------------------------------------------------------------------
(* _extract_location, lines 116-128 *)

\* rf"\b{re.escape(loc)}\b"
RECURSIVE KnownLocationLoop(_, _, _)
\* Lines 118-120: the loop from entry i on.
KnownLocationLoop(locs, t, i) ==
    IF i > Len(locs) THEN None
    ELSE IF ReSearch(whole_word_pat(locs[i]), t).found THEN Some(locs[i])
    ELSE KnownLocationLoop(locs, t, i + 1)

\* The entry that comes first in the text, not in the list.
KnownLocationByText(locs, t) ==
    LET hit(i) == ReSearch(whole_word_pat(locs[i]), t)
        hits == {i \in 1..Len(locs) : hit(i).found}
    IN IF hits = {} THEN None
       ELSE Some(locs[CHOOSE i \in hits : \A j \in hits :
                        hit(i).start < hit(j).start \/ (hit(i).start = hit(j).start /\ i <= j)])

KnownLocation(locs, t) == KnownLocationLoop(locs, t, 1)

\* \b(?:in|for|at)\s+(?:the\s+)?([a-z][a-z ]{1,30})\b
location_pat ==
    Cat(<<WordB, Alt(<<Lit(<<"i", "n">>), Lit(<<"f", "o", "r">>), Lit(<<"a", "t">>)>>), Plus(SpaceC),
          Opt(Cat(<<Lit(<<"t", "h", "e">>), Plus(SpaceC)>>)),
          Grp(1, Cat(<<Chr(Lowers), Rep(Chr(Lowers \cup {" "}), 1, 30)>>)),
          WordB>>)

\* \b(device|appliance|room|area)\b.*$
generic_noun_pat ==
    Cat(<<WordB,
          Grp(1, Alt(<<Lit(<<"d", "e", "v", "i", "c", "e">>), Lit(<<"a", "p", "p", "l", "i", "a", "n", "c", "e">>), Lit(<<"r", "o", "o", "m">>), Lit(<<"a", "r", "e", "a">>)>>)),
          WordB, Star(AnyChar), EndA>>)

\* Lines 123-127 without the re.sub of line 124.
LocationFromCaptureNoStrip(cap) ==
    LET candidate == PyStrip(cap)
        joined == PyJoin(<<" ">>, PyListSlice(PySplit(candidate), 0, 3))
    IN IF joined # <<>> THEN Some(joined) ELSE None

\* Lines 123-127
LocationFromCapture(cap) ==
    LET candidate == PyStrip(ReSubEmpty(generic_noun_pat, PyStrip(cap)))
        joined == PyJoin(<<" ">>, PyListSlice(PySplit(candidate), 0, 3))
    IN IF joined # <<>> THEN Some(joined) ELSE None

\* Lines 117-128, with the KNOWN_LOCATIONS it reads as locs.
LocationOf(locs, txt) ==
    LET t == PyLower(txt)
        known == KnownLocation(locs, t)
        m == ReSearch(location_pat, t)
    IN IF known # None THEN Ret(known)
       ELSE IF m.found THEN Ret(LocationFromCapture(Group(t, m, 1)))
       ELSE Ret(None)

_extract_location(txt) == LocationOf(KNOWN_LOCATIONS, txt)

-----------------------------------------------------------------------------
(* _extract_device_name, lines 130-147 *)

\* [a-z0-9]+
word_pat == Plus(Chr(Lowers \cup Digits))

\* Line 142, over the keywords in their order.
WindowHasKeyword(kws, words, i) ==
    LET two_words == words[i + 1] \o <<" ">> \o words[i + 2]
        three_words == PyJoin(<<" ">>, PyListSlice(words, i, i + 3))
    IN \E k \in 1..Len(kws) : PyIn(kws[k], two_words) \/ PyIn(kws[k], three_words)

\* Lines 144-146, i counted from 0 as in the source.
NameCandidate(words, i) ==
    LET start == IF i - 1 > 0 THEN i - 1 ELSE 0
    IN PyStrip(PyJoin(<<" ">>, PyListSlice(words, start, i + 3)))

RECURSIVE NameLoop(_, _, _)
\* Lines 138-147: the loop from i on, for i in range(len(words) - 1).
NameLoop(kws, words, i) ==
    IF i >= Len(words) - 1 THEN None
    ELSE IF WindowHasKeyword(kws, words, i) THEN Some(NameCandidate(words, i))
    ELSE NameLoop(kws, words, i + 1)

\* Lines 134-147, with the DEVICE_KEYWORDS it reads as kws.
NameOf(kws, txt) ==
    LET t == PyLower(txt)
        words == ReFindAll(word_pat, t)
    IN Ret(NameLoop(kws, words, 0))

_extract_device_name(txt) == NameOf(DEVICE_KEYWORDS, txt)

-----------------------------------------------------------------------------
(* parse_details, lines 150-157 *)

DeviceDetails(n, ty, p, r, l) ==
    [name |-> n, type |-> ty, powerwatts |-> p, rating |-> r, location |-> l]

\* DeviceDetails(), every field at its default
EmptyDetails == DeviceDetails(None, None, None, None, None)

\* The record built from what the five calls did: the arguments are
\* evaluated in the order written, and the first that raises ends the call.
Assemble(n, ty, p, r, l) ==
    IF n.exc # "" THEN Raise(n.exc)
       ELSE IF ty.exc # "" THEN Raise(ty.exc)
       ELSE IF p.exc # "" THEN Raise(p.exc)
       ELSE IF r.exc # "" THEN Raise(r.exc)
       ELSE IF l.exc # "" THEN Raise(l.exc)
       ELSE Ret(DeviceDetails(n.val, ty.val, p.val, r.val, l.val))

parse_details(txt) ==
    Assemble(_extract_device_name(txt), _extract_type(txt), _extract_power_watts(txt),
             _extract_rating(txt), _extract_location(txt))

-----------------------------------------------------------------------------
(* Inputs: a text is a few phrases joined by single spaces. *)

\* The sequences over S of length at most n.
SeqsUpTo(S, n) == UNION {[1..k -> S] : k \in 0..n}

TextOf(ws) == PyJoin(<<" ">>, ws)

MaxPowerPhrases == 3
MaxRatingPhrases == 3
MaxTypePhrases == 3
MaxLocationPhrases == 3
MaxNamePhrases == 3
MaxParsePhrases == 2

PowerPhrases ==
    {<<"p", "o", "w", "e", "r">>, <<"W", "a", "t", "t", "a", "g", "e", ":">>, <<"8", "0", "0">>, <<"2", ".", "5">>, <<"3", ".", "5">>, <<"3", "k", "W">>, <<"1", ".", "5", "K", "W">>,
     <<"w">>, <<"K", "i", "l", "o", "w", "a", "t", "t", "s">>, <<"w", "a", "s", "h", "e", "r", "s">>}

RatingPhrases ==
    {<<"3">>, <<"1", "2">>, <<"s", "t", "a", "r">>, <<"S", "t", "a", "r", "s">>, <<"t", "h", "r", "e", "e">>, <<"t", "e", "n", "-", "s", "t", "a", "r">>, <<"r", "a", "t", "i", "n", "g">>,
     <<"i", "s">>, <<"r", "a", "t", "i", "n", "g", ":", "4">>, <<"-">>, <<"x", "5">>}

TypePhrases ==
    {<<"t", "y", "p", "e">>, <<"T", "y", "p", "e", ":">>, <<"i", "s">>, <<"i", "s", "l", "a", "n", "d">>, <<"g", "a", "s">>, <<"E", "l", "e", "c", "t", "r", "i", "c">>, <<"s", "o", "l", "a", "r">>,
     <<"g", "a", "s", "o", "l", "i", "n", "e">>, <<"h", "y", "b", "r", "i", "d">>, <<"t", "y", "p", "e", "s">>}

LocationPhrases ==
    {<<"i", "n">>, <<"a", "t", " ", "t", "h", "e">>, <<"K", "i", "t", "c", "h", "e", "n">>, <<"l", "i", "v", "i", "n", "g", " ", "r", "o", "o", "m">>, <<"s", "t", "u", "d", "y">>, <<"g", "a", "r", "d", "e", "n">>,
     <<"r", "o", "o", "m">>, <<"s", "h", "o", "w", "r", "o", "o", "m", " ", "a", "r", "e", "a">>, <<"m", "y", " ", "b", "i", "g">>, <<"c", "o", "n", "s", "e", "r", "v", "a", "t", "o", "r", "y", " ", "a", "n", "n", "e", "x">>}

NamePhrases ==
    {<<"L", "G">>, <<"f", "r", "i", "d", "g", "e">>, <<"t", "w", "o">>, <<"m", "y">>, <<"w", "a", "s", "h", "i", "n", "g", " ", "m", "a", "c", "h", "i", "n", "e">>, <<"p", "l", "a", "c", "e">>,
     <<"a", "i", "r">>, <<"c", "o", "n", "d", "i", "t", "i", "o", "n", "e", "r">>}

ParsePhrases ==
    {<<Nines400, "k", "w">>, <<"p", "o", "w", "e", "r", " ", Nines400>>, <<Nines400, " ", "s", "t", "a", "r">>, <<"r", "a", "t", "i", "n", "g", " ", Nines400>>, <<"1", ".", "5", "k", "W">>,
     <<"L", "G", " ", "f", "r", "i", "d", "g", "e">>, <<"3", " ", "s", "t", "a", "r">>, <<"i", "n", " ", "t", "h", "e", " ", "k", "i", "t", "c", "h", "e", "n">>, <<"t", "y", "p", "e", " ", "g", "a", "s">>, <<"p", "o", "w", "e", "r", ":", " ", "8", "0", "0">>,
     <<"!", "?">>}

-----------------------------------------------------------------------------
(* The specifications *)

GlobalsInit ==
    /\ KNOWN_LOCATIONS = KnownLocationsList
    /\ DEVICE_KEYWORDS = DeviceKeywordsList
    /\ NUMBER_WORDS = NumberWordsDict

\* No concurrent calls and no requests.
NoCalls == ctext = <<>> /\ cpending = <<>> /\ cfields = <<>> /\ cret = <<>>
NoRequests ==
    /\ upload = <<>> /\ hpc = <<>> /\ dir = <<>> /\ inode = <<>>
    /\ fd = <<>> /\ heard = <<>> /\ response = <<>>

\* No single call under check.
PureInit(phrases, n) ==
    /\ \E ws \in SeqsUpTo(phrases, n) : text = TextOf(ws)
    /\ pc = "call"
    /\ result = Ret(None)
    /\ GlobalsInit /\ NoCalls /\ NoRequests

\* One call of a function of the text.
Called(outcome) ==
    /\ pc = "call"
    /\ pc' = "done"
    /\ result' = outcome
    /\ UNCHANGED <<text, vocabVars, concVars, httpVars>>

CallPower == Called(_extract_power_watts(text))
CallRating == Called(_extract_rating(text))
CallType == Called(_extract_type(text))
CallLocation == Called(_extract_location(text))
CallName == Called(_extract_device_name(text))
CallParse == Called(parse_details(text))

SpecPower == PureInit(PowerPhrases, MaxPowerPhrases) /\ [][CallPower]_vars
SpecRating == PureInit(RatingPhrases, MaxRatingPhrases) /\ [][CallRating]_vars
SpecType == PureInit(TypePhrases, MaxTypePhrases) /\ [][CallType]_vars
SpecLocation == PureInit(LocationPhrases, MaxLocationPhrases) /\ [][CallLocation]_vars
SpecName == PureInit(NamePhrases, MaxNamePhrases) /\ [][CallName]_vars
SpecParse == PureInit(ParsePhrases, MaxParsePhrases) /\ [][CallParse]_vars

-----------------------------------------------------------------------------
(* Concurrent calls of parse_details: /parse is a sync endpoint, which the   *)
(* server runs on a pool of threads. Each call evaluates its five arguments *)
(* in the order written (lines 152-156), one extractor a step, and then     *)
(* builds the record; the steps of different calls interleave freely.       *)

NCalls == 2
Calls == 1..NCalls

ConcTexts == {<<"L", "G", " ", "f", "a", "n", " ", "3", " ", "s", "t", "a", "r">>, <<"i", "n", " ", "s", "t", "u", "d", "y", " ", "K", "i", "t", "c", "h", "e", "n">>, <<"t", "y", "p", "e", " ", "g", "a", "s", " ", "2", "k", "W", " ", "s", "t", "u", "d", "y">>}

ArgumentOrder == <<"name", "type", "powerwatts", "rating", "location">>

NoSingleCall == text = <<>> /\ pc = "idle" /\ result = Ret(None)

ConcInit ==
    /\ ctext \in [Calls -> ConcTexts]
    /\ cpending = [c \in Calls |-> ArgumentOrder]
    /\ cfields = [c \in Calls |-> [f \in {"name", "type", "powerwatts", "rating", "location"} |-> Ret(None)]]
    /\ cret = [c \in Calls |-> None]
    /\ GlobalsInit /\ NoSingleCall /\ NoRequests

\* Call c evaluates its next argument, field f, to outcome o.
Evaluate(c, f, o) ==
    /\ cpending[c] # <<>> /\ Head(cpending[c]) = f
    /\ cfields' = [cfields EXCEPT ![c][f] = o]
    /\ cpending' = [cpending EXCEPT ![c] = Tail(@)]
    /\ UNCHANGED <<ctext, cret, pureVars, httpVars>>

ExtractName(c) == Evaluate(c, "name", _extract_device_name(ctext[c])) /\ UNCHANGED vocabVars
ExtractType(c) == Evaluate(c, "type", _extract_type(ctext[c])) /\ UNCHANGED vocabVars
ExtractPower(c) == Evaluate(c, "powerwatts", _extract_power_watts(ctext[c])) /\ UNCHANGED vocabVars
ExtractRating(c) == Evaluate(c, "rating", _extract_rating(ctext[c])) /\ UNCHANGED vocabVars

\* list.remove(x); list.insert(0, x)
MoveToFront(l, x) == <<x>> \o SelectSeq(l, LAMBDA y : y # x)

\* _extract_location keeping the location it found at the front of
\* KNOWN_LOCATIONS, for the next call to find it sooner.
ExtractLocationCaching(c) ==
    LET o == _extract_location(ctext[c])
    IN /\ Evaluate(c, "location", o)
       /\ KNOWN_LOCATIONS' = IF o.val # None /\ \E i \in 1..Len(KNOWN_LOCATIONS) : KNOWN_LOCATIONS[i] = o.val[1]
                             THEN MoveToFront(KNOWN_LOCATIONS, o.val[1])
                             ELSE KNOWN_LOCATIONS
       /\ UNCHANGED <<DEVICE_KEYWORDS, NUMBER_WORDS>>

ExtractLocation(c) == Evaluate(c, "location", _extract_location(ctext[c])) /\ UNCHANGED vocabVars

\* Line 151: the record is built and returned.
ReturnDetails(c) ==
    /\ cpending[c] = <<>> /\ cret[c] = None
    /\ cret' = [cret EXCEPT ![c] =
                  Some(Assemble(cfields[c].name, cfields[c].type, cfields[c].powerwatts,
                                cfields[c].rating, cfields[c].location))]
    /\ UNCHANGED <<ctext, cpending, cfields, pureVars, vocabVars, httpVars>>

ConcNext ==
    \E c \in Calls :
        \/ ExtractName(c)
        \/ ExtractType(c)
        \/ ExtractPower(c)
        \/ ExtractRating(c)
        \/ ExtractLocation(c)
        \/ ReturnDetails(c)

SpecConc == ConcInit /\ [][ConcNext]_vars

-----------------------------------------------------------------------------
(* The upload handlers, lines 174-201. They are coroutines of one event      *)
(* loop: a handler runs alone from one await to the next. The only await is  *)
(* file.read(), inside the with block that has opened the temp file.         *)

NReq == 2
Reqs == 1..NReq

Filenames == {"a.wav", "b.wav"}
Endpoints == {"transcribe", "add_device_voice"}

\* What request r uploads: r bytes of value r.
BytesOf(r) == [i \in 1..r |-> r]

\* What the speech model makes of a file: it fails on an empty one; the first
\* byte stands for what is said.
Spoken == <<<<" ", "L", "G", " ", "f", "r", "i", "d", "g", "e", " ", "3", " ", "s", "t", "a", "r", " ">>, <<>>, <<"i", "n", " ", "t", "h", "e", " ", "k", "i", "t", "c", "h", "e", "n">>>>

NotHeard == [done |-> FALSE, exists |-> FALSE, content |-> <<>>]
HeardMissing == [done |-> TRUE, exists |-> FALSE, content |-> <<>>]
HeardFile(content) == [done |-> TRUE, exists |-> TRUE, content |-> content]

NoResponse == [kind |-> "none", text |-> <<>>, details |-> EmptyDetails]
ErrorResponse == [kind |-> "error", text |-> <<>>, details |-> EmptyDetails]
TextResponse(t) == [kind |-> "text", text |-> t, details |-> EmptyDetails]
DetailsResponse(d) == [kind |-> "details", text |-> <<>>, details |-> d]

HttpInit ==
    /\ \E ep \in [Reqs -> Endpoints], fn \in [Reqs -> Filenames] :
         upload = [r \in Reqs |-> [endpoint |-> ep[r], filename |-> fn[r], bytes |-> BytesOf(r)]]
    /\ hpc = [r \in Reqs |-> "new"]
    /\ dir = [f \in Filenames |-> 0]
    /\ inode = <<>>
    /\ fd = [r \in Reqs |-> 0]
    /\ heard = [r \in Reqs |-> NotHeard]
    /\ response = [r \in Reqs |-> NoResponse]
    /\ GlobalsInit /\ NoSingleCall /\ NoCalls

\* Lines 176-179 and 191-194 up to the await: open(tmp_path, "wb") makes the
\* file, or empties the one that is there.
OpenTemp(r) ==
    LET f == upload[r].filename
    IN /\ hpc[r] = "new"
       /\ IF dir[f] = 0
          THEN /\ inode' = Append(inode, <<>>)
               /\ dir' = [dir EXCEPT ![f] = Len(inode) + 1]
               /\ fd' = [fd EXCEPT ![r] = Len(inode) + 1]
          ELSE /\ inode' = [inode EXCEPT ![dir[f]] = <<>>]
               /\ fd' = [fd EXCEPT ![r] = dir[f]]
               /\ UNCHANGED dir
       /\ hpc' = [hpc EXCEPT ![r] = "awaiting"]
       /\ UNCHANGED <<upload, heard, response, pureVars, vocabVars, concVars>>

\* f.write(bytes) of a file object at offset 0, flushed when the with block
\* closes it: the bytes replace the start of what the file holds.
Written(old, bytes) ==
    bytes \o (IF Len(old) > Len(bytes) THEN SubSeq(old, Len(bytes) + 1, Len(old)) ELSE <<>>)

\* The file system after request r has written and closed its file object.
AfterWrite(r) == [inode EXCEPT ![fd[r]] = Written(@, upload[r].bytes)]

\* What speech_to_text finds at the path of request r, after r's write.
FileAtPath(r) ==
    IF dir[upload[r].filename] = 0 THEN HeardMissing
    ELSE HeardFile(AfterWrite(r)[dir[upload[r].filename]])

\* speech_to_text, lines 159-165: a missing or empty file makes transcribe
\* raise, which gives "".
speech_to_text(file) ==
    IF ~file.exists \/ file.content = <<>> THEN <<>>
    ELSE PyStrip(Spoken[((file.content[1] - 1) % Len(Spoken)) + 1])

\* The rest of a handler, from the await to its return: write and close,
\* transcribe, respond, and in the finally remove the path if it is there.
Finish(r, resp) ==
    /\ hpc[r] = "awaiting"
    /\ inode' = AfterWrite(r)
    /\ heard' = [heard EXCEPT ![r] = FileAtPath(r)]
    /\ response' = [response EXCEPT ![r] = resp]
    /\ dir' = [dir EXCEPT ![upload[r].filename] = 0]
    /\ hpc' = [hpc EXCEPT ![r] = "done"]
    /\ UNCHANGED <<upload, fd, pureVars, vocabVars, concVars>>

\* Lines 179-187
transcribe(r) ==
    LET t == speech_to_text(FileAtPath(r))
    IN /\ upload[r].endpoint = "transcribe"
       /\ Finish(r, IF t = <<>> THEN ErrorResponse ELSE TextResponse(t))

\* Lines 194-201
add_device_voice(r) ==
    LET t == speech_to_text(FileAtPath(r))
    IN /\ upload[r].endpoint = "add_device_voice"
       /\ Finish(r, DetailsResponse(IF t # <<>> THEN parse_details(t).val ELSE EmptyDetails))

HttpNext ==
    \E r \in Reqs :
        \/ OpenTemp(r)
        \/ transcribe(r)
        \/ add_device_voice(r)

SpecHttp == HttpInit /\ [][HttpNext]_vars

-----------------------------------------------------------------------------
(* What the claims speak of, stated on the characters of the text, without  *)
(* the pattern matcher.                                                     *)

Lowered == PyLower(text)

\* t[a..b-1] is non-empty and all of its characters are in S.
RunIn(t, a, b, S) == a < b /\ \A i \in a..(b - 1) : t[i] \in S
\* The same, or empty.
RunOrEmptyIn(t, a, b, S) == a <= b /\ \A i \in a..(b - 1) : t[i] \in S
\* w stands in t from position p on.
StandsAt(t, p, w) == p >= 1 /\ p + Len(w) - 1 <= Len(t) /\ SubSeq(t, p, p + Len(w) - 1) = w
\* w occurs in t at p as a whole word.
WholeWordAt(t, p, w) == StandsAt(t, p, w) /\ AtWordBoundary(t, p) /\ AtWordBoundary(t, p + Len(w))
OccursWholeWord(t, w) == \E p \in 1..Len(t) : WholeWordAt(t, p, w)
Least(S) == CHOOSE x \in S : \A y \in S : x <= y

\* The integer nearest to num/den, the even one of two equally near.
NearestInt(num, den) ==
    CHOOSE n \in {num \div den, num \div den + 1} :
        LET d == IF n * den >= num THEN n * den - num ELSE num - n * den
        IN 2 * d < den \/ (2 * d = den /\ n % 2 = 0)

(* C2 *)

UnitWords ==
    {<<"k", "w">>, <<"k", "w", "s">>, <<"k", "w", "a", "t", "t">>, <<"k", "w", "a", "t", "t", "s">>, <<"k", "i", "l", "o", "w">>, <<"k", "i", "l", "o", "w", "s">>, <<"k", "i", "l", "o", "w", "a", "t", "t">>,
     <<"k", "i", "l", "o", "w", "a", "t", "t", "s">>, <<"w">>, <<"w", "s">>, <<"w", "a", "t", "t">>, <<"w", "a", "t", "t", "s">>}

\* t[p..a-1] is digits, or digits '.' digits.
IsNumber(t, p, a) ==
    /\ RunIn(t, p, a, Digits \cup {"."})
    /\ t[p] # "." /\ t[a - 1] # "."
    /\ Cardinality({i \in p..(a - 1) : t[i] = "."}) <= 1

IsUnit(t, b, e) == b < e /\ SubSeq(t, b, e - 1) \in UnitWords /\ AtWordBoundary(t, e)

\* The quantities <<p, a, b, e>> of t: a number (digits, or digits '.'
\* digits) from p to a, blanks to b, a unit from b to e, and a word boundary
\* at e.
Quantities(t) ==
    LET Ends == 1..(Len(t) + 1)
        starts == {p \in 1..Len(t) : t[p] \in Digits}
        nums == {n \in starts \X Ends : IsNumber(t, n[1], n[2])}
        blanks == {nb \in nums \X Ends : RunOrEmptyIn(t, nb[1][2], nb[2], Spaces)}
    IN {<<x[1][1][1], x[1][1][2], x[1][2], x[2]>> :
            x \in {y \in blanks \X Ends : IsUnit(t, y[1][2], y[2])}}

\* The watts of quantity q: the number, times 1000 under a unit in k, to the
\* nearest integer.
WattsOf(t, q) ==
    LET num == SubSeq(t, q[1], q[2] - 1)
        dots == {i \in 1..Len(num) : num[i] = "."}
        digits == SelectSeq(num, LAMBDA c : c # ".")
        den == IF dots = {} THEN 1 ELSE Pow10(Len(num) - Least(dots))
        kilo == t[q[3]] = "k"
    IN NearestInt(DecVal(digits, 0) * (IF kilo THEN 1000 ELSE 1), den)

\* Blanks, at most one of the characters of seps, and blanks, from a to b.
IsSeparator(t, a, b, seps) ==
    \/ RunOrEmptyIn(t, a, b, Spaces)
    \/ \E c \in a..(b - 1) :
         RunOrEmptyIn(t, a, c, Spaces) /\ t[c] \in seps /\ RunOrEmptyIn(t, c + 1, b, Spaces)

\* The phrases <<p, a, e>> of t: 'power' or 'wattage' at p, blanks, at most
\* one of ':' '=', blanks, and from a to e the digits that follow, as many as
\* there are.
PowerPhrases_(t) ==
    LET Ends == 1..(Len(t) + 1)
        heads == {h \in (1..Len(t)) \X {<<"p", "o", "w", "e", "r">>, <<"w", "a", "t", "t", "a", "g", "e">>} : StandsAt(t, h[1], h[2])}
        seps == {y \in heads \X Ends : IsSeparator(t, y[1][1] + Len(y[1][2]), y[2], {":", "="})}
    IN {<<x[1][1][1], x[1][2], x[2]>> :
            x \in {y \in seps \X Ends :
                     /\ RunIn(t, y[1][2], y[2], Digits)
                     /\ ~(y[2] <= Len(t) /\ t[y[2]] \in Digits)}}

FirstOf(S) == CHOOSE q \in S : \A r \in S : q[1] <= r[1]

\* C2: _extract_power_watts returns the leftmost unit-qualified quantity in
\* integer watts (times 1000 under a unit in k, rounded to the nearest
\* integer); only when the text holds no such quantity, the integer after the
\* leftmost 'power'/'wattage', as written, wherever that phrase stands;
\* otherwise nothing.
C2_PowerPrecedence ==
    pc = "done" =>
        LET t == Lowered
            qs == Quantities(t)
            ps == PowerPhrases_(t)
            q1 == FirstOf(qs)
            p1 == FirstOf(ps)
        IN /\ result.exc = ""
           /\ result.val =
                IF qs # {} THEN Some(WattsOf(t, q1))
                ELSE IF ps # {} THEN Some(DecVal(SubSeq(t, p1[2], p1[3] - 1), 0))
                ELSE None

\* A power phrase stands before the first quantity, the quantity is in
\* kilowatts, and the call returned the quantity's watts.
C2_Witness ==
    /\ pc = "done"
    /\ LET t == Lowered
           qs == Quantities(t)
           ps == PowerPhrases_(t)
           q1 == FirstOf(qs)
       IN /\ qs # {} /\ ps # {}
          /\ FirstOf(ps)[1] < q1[1]
          /\ t[q1[3]] = "k"
          /\ result.val = Some(WattsOf(t, q1))

(* C3 *)

\* Blanks and hyphens from a to b, 'star' or 'stars' from b to e, and a word
\* boundary at e.
IsStarTail(t, a, b, e) ==
    /\ RunOrEmptyIn(t, a, b, Spaces \cup {"-"})
    /\ \E w \in {<<"s", "t", "a", "r">>, <<"s", "t", "a", "r", "s">>} : StandsAt(t, b, w) /\ e = b + Len(w)
    /\ AtWordBoundary(t, e)

HasStarTail(t, a) ==
    \E b \in a..(Len(t) + 1) :
        RunOrEmptyIn(t, a, b, Spaces \cup {"-"}) /\ \E e \in {b + 4, b + 5} : IsStarTail(t, a, b, e)

\* <digits> star(s): the digits from p to a, at a word boundary.
DigitStars(t) ==
    LET starts == {p \in 1..Len(t) : AtWordBoundary(t, p) /\ t[p] \in Digits}
    IN {q \in starts \X (1..Len(t) + 1) :
          RunIn(t, q[1], q[2], Digits) /\ HasStarTail(t, q[2])}

\* <number word> star(s): the word of NumberWordsDict entry k at p.
WordStars(t) ==
    {q \in (1..Len(t)) \X (1..Len(NumberWordsDict)) :
        /\ AtWordBoundary(t, q[1])
        /\ StandsAt(t, q[1], NumberWordsDict[q[2]][1])
        /\ HasStarTail(t, q[1] + Len(NumberWordsDict[q[2]][1]))}

\* The phrases <<p, a, e>> of t: the word 'rating' at p, blanks, at most one
\* of 'is' ':', blanks, and the digits from a to e, ending at a word boundary.
RatingPhrases_(t) ==
    LET Ends == 1..(Len(t) + 1)
        heads == {p \in 1..Len(t) : AtWordBoundary(t, p) /\ StandsAt(t, p, <<"r", "a", "t", "i", "n", "g">>)}
    IN {y \in heads \X Ends \X Ends :
          /\ \/ RunOrEmptyIn(t, y[1] + 6, y[2], Spaces)
             \/ \E c \in (y[1] + 6)..(y[2] - 1), w \in {<<"i", "s">>, <<":">>} :
                  /\ RunOrEmptyIn(t, y[1] + 6, c, Spaces)
                  /\ StandsAt(t, c, w)
                  /\ RunOrEmptyIn(t, c + Len(w), y[2], Spaces)
          /\ RunIn(t, y[2], y[3], Digits)
          /\ AtWordBoundary(t, y[3])}

\* C3: _extract_rating returns the digits of the leftmost '<digits> star(s)'
\* if there is one, wherever a word form stands; else the value of the number
\* word of the leftmost '<word> star(s)'; else the digits of the leftmost
\* 'rating (is|:)? <digits>'; else nothing. The value has no upper bound.
C3_RatingPrecedence ==
    pc = "done" =>
        LET ds == DigitStars(Lowered)
            ws == WordStars(Lowered)
            rs == RatingPhrases_(Lowered)
        IN /\ result.exc = ""
           /\ result.val =
                IF ds # {} THEN Some(DecVal(SubSeq(Lowered, FirstOf(ds)[1], FirstOf(ds)[2] - 1), 0))
                ELSE IF ws # {} THEN Some(NumberWordsDict[FirstOf(ws)[2]][2])
                ELSE IF rs # {}
                     THEN Some(DecVal(SubSeq(Lowered, FirstOf(rs)[2], FirstOf(rs)[3] - 1), 0))
                ELSE None

\* A word-form rating stands before a digit-form rating above ten, and the
\* call returned the digits.
C3_Witness ==
    /\ pc = "done"
    /\ LET ds == DigitStars(Lowered)
           ws == WordStars(Lowered)
       IN /\ ds # {} /\ ws # {}
          /\ FirstOf(ws)[1] < FirstOf(ds)[1]
          /\ result.val = Some(12)
(* C4, C5 *)

IsAlpha(w) == w # <<>> /\ \A i \in 1..Len(w) : w[i] \in Lowers

\* The word that follows the leftmost word 'type' (the one after 'is' or ':',
\* when one of these comes between), for a text of blank-separated words.
TypeWordAfter(ws) ==
    LET marks == {i \in 1..Len(ws) : ws[i] \in {<<"t", "y", "p", "e">>, <<"t", "y", "p", "e", ":">>}}
        i == Least(marks)
    IN IF marks = {} THEN None
       ELSE IF /\ ws[i] = <<"t", "y", "p", "e">> /\ i + 2 <= Len(ws)
               /\ ws[i + 1] \in {<<"i", "s">>, <<":">>} /\ IsAlpha(ws[i + 2])
            THEN Some(ws[i + 2])
       ELSE IF i + 1 <= Len(ws) /\ IsAlpha(ws[i + 1]) THEN Some(ws[i + 1])
       ELSE None

\* C4: when the text holds the word 'type', then at most one of 'is' ':', and
\* then a word, _extract_type returns that word in full, lower-cased, also
\* when the word begins with the letters 'is'.
C4_ExplicitTypeWord ==
    pc = "done" =>
        LET w == TypeWordAfter(PySplit(Lowered))
        IN w # None => result.val = w

\* The explicit form `type (is|:)? <word>` on the characters: the letters
\* 'type' at a word boundary, blanks, at most one of 'is' ':', blanks, and
\* letters up to a word boundary.
HasExplicitType(t) ==
    \E p \in {q \in 1..Len(t) : AtWordBoundary(t, q) /\ StandsAt(t, q, <<"t", "y", "p", "e">>)} :
        \E a \in (p + 4)..Len(t) :
            /\ \/ RunOrEmptyIn(t, p + 4, a, Spaces)
               \/ \E c \in (p + 4)..(a - 1), w \in {<<"i", "s">>, <<":">>} :
                    /\ RunOrEmptyIn(t, p + 4, c, Spaces)
                    /\ StandsAt(t, c, w)
                    /\ RunOrEmptyIn(t, c + Len(w), a, Spaces)
            /\ \E e \in (a + 1)..(Len(t) + 1) :
                    RunIn(t, a, e, Lowers) /\ AtWordBoundary(t, e)

TypeKeywordHits(t) == {i \in 1..Len(TypeKeywords) : OccursWholeWord(t, TypeKeywords[i])}

LocationHits(t) ==
    {i \in 1..Len(KnownLocationsList) : OccursWholeWord(t, KnownLocationsList[i])}

VocabularyEntries == {KnownLocationsList[i] : i \in 1..Len(KnownLocationsList)}

\* C6: when an entry of the vocabulary stands in the text as a whole word,
\* _extract_location returns the first such entry of the list; the result is
\* something else (the preposition form's, or nothing) only when none does.
C6_VocabularyFirst ==
    pc = "done" =>
        LET hits == LocationHits(Lowered)
        IN /\ result.exc = ""
           /\ IF hits # {} THEN result.val = Some(KnownLocationsList[Least(hits)])
              ELSE result.val = None \/ result.val[1] \notin VocabularyEntries

\* 'study' stands before 'kitchen' after a preposition, and the call returned
\* 'kitchen'.
C6_Witness ==
    /\ pc = "done"
    /\ ReSearch(location_pat, Lowered).found
    /\ \E p \in 1..Len(Lowered), q \in 1..Len(Lowered) :
         p < q /\ WholeWordAt(Lowered, p, <<"s", "t", "u", "d", "y">>) /\ WholeWordAt(Lowered, q, <<"k", "i", "t", "c", "h", "e", "n">>)
    /\ result.val = Some(<<"k", "i", "t", "c", "h", "e", "n">>)

GenericNouns == {<<"d", "e", "v", "i", "c", "e">>, <<"a", "p", "p", "l", "i", "a", "n", "c", "e">>, <<"r", "o", "o", "m">>, <<"a", "r", "e", "a">>}

\* The number of words of s: the places where a word starts.
WordCount(s) == Cardinality({i \in 1..Len(s) : s[i] # " " /\ (i = 1 \/ s[i - 1] = " ")})

\* C7: the location is nothing, or a non-empty string of lower-case words, at
\* most 3 of them, with none of the words device, appliance, room, area among
\* them when no vocabulary entry stands in the text.
C7_LocationShape ==
    pc = "done" =>
        \/ result.val = None
        \/ LET s == result.val[1]
           IN /\ s # <<>>
              /\ \A i \in 1..Len(s) : s[i] \in Lowers \cup {" "}
              /\ s[1] # " " /\ s[Len(s)] # " "
              /\ WordCount(s) <= 3
              /\ LocationHits(Lowered) = {} => \A g \in GenericNouns : ~OccursWholeWord(s, g)

\* The preposition form matched in a text without vocabulary entry, and what
\* it captured came to nothing: the call returned None.
C7_Witness ==
    /\ pc = "done"
    /\ LocationHits(Lowered) = {}
    /\ ReSearch(location_pat, Lowered).found
    /\ result = Ret(None)

(* C8 *)

HasDeviceKeyword(s) == \E k \in 1..Len(DeviceKeywordsList) : PyIn(DeviceKeywordsList[k], s)

\* The windows <<i, n>> of n words from word i on (counted from 0) that hold a
\* keyword.
KeywordWindows(ws) ==
    {c \in (0..(Len(ws) - 2)) \X {2, 3} :
        HasDeviceKeyword(PyJoin(<<" ">>, PyListSlice(ws, c[1], c[1] + c[2])))}

\* C8: the name is the word before the first window that holds a keyword
\* (positions left to right, at each the 2-word window before the 3-word
\* one), when there is such a word, followed by the words of that window;
\* nothing when no window holds a keyword.
C8_BrandPlusWindow ==
    pc = "done" =>
        LET ws == ReFindAll(word_pat, Lowered)
            cands == KeywordWindows(ws)
            c == CHOOSE x \in cands :
                    \A y \in cands : x[1] < y[1] \/ (x[1] = y[1] /\ x[2] <= y[2])
            before == IF c[1] >= 1 THEN <<ws[c[1]]>> ELSE <<>>
        IN result.val =
             IF cands = {} THEN None
             ELSE Some(PyJoin(<<" ">>, before \o PyListSlice(ws, c[1], c[1] + c[2])))

(* C1 *)

HugeIn(t, a, b) == \E i \in a..(b - 1) : t[i] = Nines400

\* The number that _extract_power_watts would convert is beyond a float.
PowerConversionFails(t) ==
    LET qs == Quantities(t)
        ps == PowerPhrases_(t)
    IN IF qs # {} THEN HugeIn(t, FirstOf(qs)[1], FirstOf(qs)[2])
       ELSE ps # {} /\ HugeIn(t, FirstOf(ps)[2], FirstOf(ps)[3])

\* The digits that _extract_rating would convert are beyond a float.
RatingConversionFails(t) ==
    LET ds == DigitStars(t)
        ws == WordStars(t)
        rs == RatingPhrases_(t)
    IN IF ds # {} THEN HugeIn(t, FirstOf(ds)[1], FirstOf(ds)[2])
       ELSE ws = {} /\ rs # {} /\ HugeIn(t, FirstOf(rs)[2], FirstOf(rs)[3])

IsOptional(v) == v = None \/ Len(v) = 1

\* C1: parse_details can be called on every text, the empty one included, and
\* returns a record of five optional fields; it never raises, and a number too
\* large to convert leaves its field absent.
C1_NeverRaises ==
    /\ pc = "call" => parse_details(text).exc = ""
    /\ pc = "done" =>
         /\ result.exc = ""
         /\ DOMAIN result.val = {"name", "type", "powerwatts", "rating", "location"}
         /\ \A f \in DOMAIN result.val : IsOptional(result.val[f])
         /\ PowerConversionFails(Lowered) => result.val.powerwatts = None
         /\ RatingConversionFails(Lowered) => result.val.rating = None

\* A 400-digit quantity in kilowatts was parsed: the call returned, with no
\* power.
C1_Witness ==
    /\ pc = "done"
    /\ PowerConversionFails(Lowered)
    /\ Quantities(Lowered) # {}
    /\ result.exc = ""
    /\ result.val.powerwatts = None
(* C9 *)

\* What parse_details returns for txt when it runs alone, with the
\* vocabularies as the module loads them.
Alone(txt) ==
    Assemble(NameOf(DeviceKeywordsList, txt), _extract_type(txt), _extract_power_watts(txt),
             RatingOf(NumberWordsDict, txt), LocationOf(KnownLocationsList, txt))

C10_OwnFileTranscribed ==
    \A r \in Reqs : hpc[r] = "done" => heard[r] = HeardFile(upload[r].bytes)

====
